---- MODULE Spec2Model ----
(***************************************************************************)
(* CodeChunker (src/mcp_doc_generator/core/chunker.py) as a state machine. *)
(*                                                                         *)
(* One invocation of chunk() runs from pc = "start" to pc = "done"; every  *)
(* iteration of a packing loop, of the cluster search and of the overlap   *)
(* pass is one step.  The inputs (content, files, strategy, max_tokens,    *)
(* overlap, and whether the tiktoken encoder is usable) are drawn in Init; *)
(* preserve_context has the constructor's default, and Rebuild builds a    *)
(* chunker with the other value.                                           *)
(*                                                                         *)
(* Text is modelled by its structure, not by its characters:               *)
(*   - a path is [dir, stem, ext]: the directory components, the file name *)
(*     without its suffix, and the suffix;                                 *)
(*   - the combined content is a sequence of entries joined by "\n": a     *)
(*     delimited block (separator, "FILE: p" or "DIRECTORY: p", separator, *)
(*     body) or plain text holding no separator line;                      *)
(*   - a body is known by its length in characters, by the module names    *)
(*     and import strings the two import patterns capture in it, and by    *)
(*     the number of tokens the o200k_base encoder gives its block;        *)
(*   - a chunk's content is a sequence of pieces, each a range lo..hi of   *)
(*     the characters of one block, of the context marker or of the blank  *)
(*     line that follows the copied context.                               *)
(* Iterating a Python set of str visits its members in an order that       *)
(* depends on the process's hash seed: each such iteration takes an        *)
(* arbitrary order of the set.                                             *)
(***************************************************************************)
EXTENDS Integers, Sequences, FiniteSets, TLC

\* Bound of the model: the number of entries of the combined content.
MaxFiles == 3

----------------------------------------------------------------------------
\* Strings and paths

\* len(s) of the path components the inputs use.
StrLen(s) ==
    CASE s = "" -> 0
      [] s \in {".py", ".js", ".ts"} -> 3
      [] s \in {"src", "pkg", "web", "app"} -> 3
      [] s \in {"main", "util"} -> 4
      [] s = "__init__" -> 8

RECURSIVE SumStrLen(_)
SumStrLen(parts) ==
    IF parts = <<>> THEN 0 ELSE StrLen(Head(parts)) + SumStrLen(Tail(parts))

\* len(path) of the path written with "/" (or "\") between its components.
PathLen(p) == SumStrLen(p.dir) + Len(p.dir) + StrLen(p.stem) + StrLen(p.ext)

Path(dir, stem, ext) == [dir |-> dir, stem |-> stem, ext |-> ext]

\* PurePath(path).name
Name(p) == <<p.stem, p.ext>>

\* str(PurePath(path).parent): the directory components (<<>> is ".").
Parent(p) == p.dir

\* match.group(1).strip().replace("\\", "/"): the header's path with every
\* backslash turned into a slash.
NormalizePath(raw) == Path(raw.dir, raw.stem, raw.ext)

main_py == Path(<<"src">>, "main", ".py")
util_py == Path(<<"src">>, "util", ".py")
init_py == Path(<<"pkg">>, "__init__", ".py")
app_py  == Path(<<"src">>, "app", ".py")
app_js  == Path(<<"web">>, "app", ".js")
util_js == Path(<<"web">>, "util", ".js")
NoPath  == Path(<<>>, "", "")

----------------------------------------------------------------------------
\* The inputs

RawPath(p, sep) == [dir |-> p.dir, stem |-> p.stem, ext |-> p.ext, sep |-> sep]

\* raises: enc.encode refuses a text holding this body (it holds a
\* special-token string such as "<|endoftext|>") and raises ValueError
FileEntry(kind, raw, chars, tik, py, js, raises) ==
    [kind |-> kind, raw |-> raw, chars |-> chars, tik |-> tik,
     py_imports |-> py, js_imports |-> js, raises |-> raises]

\* src/main.py: "from src.util import x"
E_main == FileEntry("FILE", RawPath(main_py, "/"), 23, 30, {<<"src", "util">>}, {}, FALSE)
\* src/util.py: imports nothing of the batch ("import os")
E_util == FileEntry("FILE", RawPath(util_py, "/"), 30, 33, {<<"os">>}, {}, FALSE)
\* src/app.py: "import src.main" and "import src.util"
E_cli == FileEntry("FILE", RawPath(app_py, "/"), 31, 34,
                   {<<"src", "main">>, <<"src", "util">>}, {}, FALSE)
\* pkg/__init__.py: "from pkg import a" and "import src.util"
E_init == FileEntry("FILE", RawPath(init_py, "/"), 33, 36,
                    {<<"pkg">>, <<"src", "util">>}, {}, FALSE)
\* web\app.js under a DIRECTORY header: "u = require('./util');"
E_app  == FileEntry("DIRECTORY", RawPath(app_js, "\\"), 22, 31, {}, {<<".", "util">>},
                    FALSE)
\* web/util.js: a long file, with "require('react')" and a special-token
\* string the encoder refuses
E_wutil == FileEntry("FILE", RawPath(util_js, "/"), 300, 90, {}, {<<"react">>},
                     TRUE)
\* text holding no separator line
E_text == FileEntry("TEXT", RawPath(NoPath, "/"), 7, 3, {}, {}, FALSE)

Entries == {E_main, E_util, E_cli, E_init, E_app, E_wutil, E_text}

RECURSIVE SeqsUpTo(_, _)
SeqsUpTo(S, n) ==
    IF n = 0 THEN {<<>>}
    ELSE LET shorter == SeqsUpTo(S, n - 1)
         IN  shorter \cup {Append(s, e) : s \in {t \in shorter : Len(t) = n - 1}, e \in S}

Contents == SeqsUpTo(Entries, MaxFiles)

\* The per-file records given to chunk(): "path" and, unless the caller
\* left it out, "importance"; the first record of a path is the one
\* _file_importance reads.
FilesMeta ==
    << [path |-> util_py, importance |-> 70],
       [path |-> init_py, importance |-> 75],
       [path |-> util_py, importance |-> 10],
       [path |-> app_py],
       [path |-> util_js, importance |-> 65] >>

DefaultImportance == 50

DefaultMaxTokens == 100000

Strategies == {"file", "directory", "semantic", "hybrid"}
MaxTokensChoices == {35, 72, DefaultMaxTokens}
OverlapChoices == {0, 35}

----------------------------------------------------------------------------
\* Text

SeparatorLen == 48
FileLabelLen == 6        \* len("FILE: ")
MarkerLen == 30          \* len("[Context from previous chunk]\n")
GapLen == 2              \* len("\n\n")
CharsPerToken == 4

\* len(f"{separator}\nFILE: {path}\n{separator}\n{match.group(2)}")
BlockLen(path, chars) ==
    SeparatorLen + 1 + FileLabelLen + PathLen(path) + 1 + SeparatorLen + 1 + chars

Piece(kind, path, lo, hi) == [kind |-> kind, path |-> path, lo |-> lo, hi |-> hi]

RECURSIVE TextLen(_)
TextLen(text) ==
    IF text = <<>> THEN 0
    ELSE (Head(text).hi - Head(text).lo + 1) + TextLen(Tail(text))

\* text[-n:] for 0 < n < len(text)
RECURSIVE Suffix(_, _)
Suffix(text, n) ==
    IF n <= 0 \/ text = <<>> THEN <<>>
    ELSE LET last == text[Len(text)]
             size == last.hi - last.lo + 1
         IN  IF size >= n
             THEN << Piece(last.kind, last.path, last.hi - n + 1, last.hi) >>
             ELSE Suffix(SubSeq(text, 1, Len(text) - 1), n - size) \o << last >>

Range(s) == {s[k] : k \in 1..Len(s)}

RECURSIVE SumSeq(_)
SumSeq(s) == IF s = <<>> THEN 0 ELSE Head(s) + SumSeq(Tail(s))

----------------------------------------------------------------------------
\* The inputs of one invocation, and the state of the invocation

VARIABLES
    content,        \* the combined content: a sequence of entries
    files,          \* the per-file records (path, importance)
    strategy,       \* "file", "directory", "semantic" or "hybrid"
    max_tokens,     \* self.max_tokens
    overlap,        \* self.overlap
    preserve_context, \* self.preserve_context
    tiktoken,       \* whether importing tiktoken and encoding succeed
    pc,             \* the position of the invocation
    file_blocks,    \* the ordered mapping path -> block, as a sequence
    import_graph,   \* path -> set of neighbour paths (keys with an edge)
    sorted_dirs,    \* directory strategy: the directories, by importance
    scored_files,   \* hybrid strategy: (path, importance), by importance
    processed,      \* hybrid strategy: the paths already in a group
    visited,        \* cluster search: the paths already visited
    stack,          \* cluster search: the work-list
    cluster,        \* cluster search: the cluster being collected
    clusters,       \* cluster search: the clusters found
    i,              \* index of the current loop
    j,              \* directory strategy: index of the per-file loop
    chunks,         \* the sealed chunks
    current_chunk,  \* the open chunk
    result,         \* the ChunkResult returned
    run,            \* 1 for the first call, 2 for a second one, 3 for the
                    \* first call resumed after the second
    first_result,   \* the result of the call that returned first
    suspended       \* the frame of a call another call has preempted

inputs == <<content, files, strategy, max_tokens, overlap, tiktoken>>
locals == <<file_blocks, import_graph, sorted_dirs, scored_files, processed,
            visited, stack, cluster, clusters, i, j, chunks, current_chunk>>
vars == <<inputs, preserve_context, pc, locals, result, run, first_result,
          suspended>>

----------------------------------------------------------------------------
\* _split_by_files

Block(path, e) ==
    [path |-> path, chars |-> e.chars, tik |-> e.tik,
     py_imports |-> e.py_imports, js_imports |-> e.js_imports,
     raises |-> e.raises]

HasKey(blocks, path) == \E k \in 1..Len(blocks) : blocks[k].path = path

\* SetBlock moving a key that is set again to the end
SetBlock_moving_last(blocks, b) ==
    LET Other(x) == x.path # b.path IN Append(SelectSeq(blocks, Other), b)

\* blocks[path] = file_content: a new key goes last, a known key keeps its place
SetBlock(blocks, b) ==
    IF HasKey(blocks, b.path)
    THEN [k \in 1..Len(blocks) |-> IF blocks[k].path = b.path THEN b ELSE blocks[k]]
    ELSE Append(blocks, b)

\* Text after a block, up to the next separator line, is matched by (.*?) as
\* part of that block's body, behind the "\n" that joins the entries.
ExtendBody(blocks, path, e) ==
    [k \in 1..Len(blocks) |->
        IF blocks[k].path = path
        THEN [blocks[k] EXCEPT !.chars = @ + 1 + e.chars, !.tik = @ + e.tik,
                               !.raises = @ \/ e.raises]
        ELSE blocks[k]]

\* re.finditer over the entries left to read; last is the path of the latest
\* match (NoPath before the first): text before the first separator matches
\* nothing.
RECURSIVE SplitFrom(_, _, _)
SplitFrom(entries, blocks, last) ==
    IF entries = <<>> THEN blocks
    ELSE LET e == Head(entries)
             path == NormalizePath(e.raw)
         IN  IF e.kind = "TEXT"
             THEN IF last = NoPath
                  THEN SplitFrom(Tail(entries), blocks, last)
                  ELSE SplitFrom(Tail(entries), ExtendBody(blocks, last, e), last)
             ELSE SplitFrom(Tail(entries), SetBlock(blocks, Block(path, e)), path)

_split_by_files(c) == SplitFrom(c, <<>>, NoPath)

Keys(blocks) == [k \in 1..Len(blocks) |-> blocks[k].path]

BlockOf(blocks, path) == blocks[CHOOSE k \in 1..Len(blocks) : blocks[k].path = path]

\* file_blocks[path] as text: the whole block
BlockText(blocks, path) ==
    LET b == BlockOf(blocks, path)
    IN  << Piece("block", path, 1, BlockLen(path, b.chars)) >>

\* the blocks of the paths of a list, concatenated in list order
RECURSIVE JoinBlocks(_, _)
JoinBlocks(blocks, paths) ==
    IF paths = <<>> THEN <<>>
    ELSE BlockText(blocks, Head(paths)) \o JoinBlocks(blocks, Tail(paths))

----------------------------------------------------------------------------
\* _count_tokens

\* len(enc.encode(text)) for a text made of whole blocks: the encoder's
\* count of each block, boundary merges between blocks left aside.
RECURSIVE TikLen(_, _)
TikLen(blocks, text) ==
    IF text = <<>> THEN 0
    ELSE BlockOf(blocks, Head(text).path).tik + TikLen(blocks, Tail(text))

\* Fallback counting a token per character
Fallback_per_char(blocks, text) == TextLen(text)

\* except Exception: return len(text) // 4
Fallback(blocks, text) == TextLen(text) \div CharsPerToken

\* whether the try block raises: tiktoken cannot be imported or loaded, or
\* the encoder refuses the text
Raises(blocks, text) ==
    \/ ~tiktoken
    \/ \E k \in 1..Len(text) : BlockOf(blocks, text[k].path).raises

_count_tokens(blocks, text) ==
    IF Raises(blocks, text) THEN Fallback(blocks, text) ELSE TikLen(blocks, text)

----------------------------------------------------------------------------
\* _file_importance, _dir_importance

FileNameScore(name) ==
    IF name \in {<<"main", ".py">>, <<"__main__", ".py">>, <<"app", ".py">>,
                 <<"index", ".ts">>, <<"server", ".py">>} THEN 100
    ELSE IF name \in {<<"pyproject", ".toml">>, <<"package", ".json">>} THEN 90
    ELSE 50

\* f.get("importance", 50)
GetImportance(f) ==
    IF "importance" \in DOMAIN f THEN f.importance ELSE DefaultImportance

_file_importance(path, fs) ==
    IF \E k \in 1..Len(fs) : fs[k].path = path
    THEN GetImportance(fs[CHOOSE k \in 1..Len(fs) :
                              /\ fs[k].path = path
                              /\ \A m \in 1..(k - 1) : fs[m].path # path])
    ELSE FileNameScore(Name(path))

\* PurePath(dir_path).name: the last component ("" for ".")
DirName(dir) == IF dir = <<>> THEN "" ELSE dir[Len(dir)]

_dir_importance(dir) ==
    LET name == DirName(dir)
    IN  CASE name = "src" -> 100
          [] name = "lib" -> 90
          [] name = "core" -> 85
          [] name = "api" -> 80
          [] name \in {"models", "services"} -> 75
          [] name = "utils" -> 60
          [] name \in {"tests", "__tests__", "test"} -> 50
          [] OTHER -> 50

\* sorted(..., reverse=True) and list.sort(reverse=True): descending by key,
\* elements of equal key in their original order.
RECURSIVE InsertDesc(_, _)
InsertDesc(e, s) ==
    IF s = <<>> THEN << e >>
    ELSE IF Head(s).key >= e.key
         THEN << Head(s) >> \o InsertDesc(e, Tail(s))
         ELSE << e >> \o s

\* s is a sequence of records with a field key
RECURSIVE SortDesc(_)
SortDesc(s) ==
    IF s = <<>> THEN <<>>
    ELSE InsertDesc(s[Len(s)], SortDesc(SubSeq(s, 1, Len(s) - 1)))

----------------------------------------------------------------------------
\* _build_import_graph

\* ".".join(parts) of the path without its suffix, a trailing "__init__"
\* dropped: the sequence of the module name's components
_path_to_module(p) ==
    IF p.stem = "__init__" THEN p.dir ELSE Append(p.dir, p.stem)

Modules(blocks) == {_path_to_module(blocks[k].path) : k \in 1..Len(blocks)}

\* file_modules[module]: of the paths with this module name, the last one
FileModule(blocks, module) ==
    blocks[CHOOSE k \in 1..Len(blocks) :
              /\ _path_to_module(blocks[k].path) = module
              /\ \A m \in (k + 1)..Len(blocks) :
                     _path_to_module(blocks[m].path) # module].path

\* the ".." and "." segments of a "/"-separated path resolved from the left
RECURSIVE NormalizeParts(_, _)
NormalizeParts(todo, parts) ==
    IF todo = <<>> THEN parts
    ELSE IF Head(todo) = ".."
         THEN NormalizeParts(Tail(todo),
                             IF parts = <<>> THEN parts
                             ELSE SubSeq(parts, 1, Len(parts) - 1))
         ELSE IF Head(todo) = "."
              THEN NormalizeParts(Tail(todo), parts)
              ELSE NormalizeParts(Tail(todo), Append(parts, Head(todo)))

_resolve_js_import(from_path, import_path) ==
    NormalizeParts(Parent(from_path) \o import_path, <<>>)

IsSuffixSeq(s, t) ==
    /\ Len(s) <= Len(t)
    /\ SubSeq(t, Len(t) - Len(s) + 1, Len(t)) = s

\* fp.endswith(resolved + ext), compared component by component (no
\* component of the inputs' paths is the tail of a longer one)
EndsWith(fp, resolved, ext) ==
    IF resolved = <<>> THEN ext = "" \/ fp.ext = ext
    ELSE /\ fp.stem = resolved[Len(resolved)]
         /\ fp.ext = ext
         /\ IsSuffixSeq(SubSeq(resolved, 1, Len(resolved) - 1), fp.dir)

JsMatches(fp, resolved) ==
    \/ EndsWith(fp, resolved, "")
    \/ EndsWith(fp, resolved, ".ts")
    \/ EndsWith(fp, resolved, ".js")

\* the (importer, imported) pairs of the Python branch: a captured module
\* name that is a key of file_modules
PyImports(blocks) ==
    UNION { {<<blocks[k].path, FileModule(blocks, m)>> :
                 m \in blocks[k].py_imports \cap Modules(blocks)} :
            k \in {n \in 1..Len(blocks) : blocks[n].path.ext = ".py"} }

\* the first fp of file_blocks the resolved import is a tail of
JsTarget(blocks, resolved) ==
    blocks[CHOOSE k \in 1..Len(blocks) :
              /\ JsMatches(blocks[k].path, resolved)
              /\ \A m \in 1..(k - 1) : ~JsMatches(blocks[m].path, resolved)].path

\* the (importer, imported) pairs of the JS/TS branch: a relative import
\* string that some path of the batch ends with
JsImports(blocks) ==
    UNION { {<<blocks[k].path,
               JsTarget(blocks, _resolve_js_import(blocks[k].path, imp))>> :
                 imp \in {x \in blocks[k].js_imports :
                            /\ Head(x) \in {".", ".."}
                            /\ \E m \in 1..Len(blocks) :
                                   JsMatches(blocks[m].path,
                                             _resolve_js_import(blocks[k].path, x))}} :
            k \in {n \in 1..Len(blocks) :
                      blocks[n].path.ext \in {".js", ".ts", ".jsx", ".tsx"}} }

\* _build_import_graph recording an edge at the importer only
_build_import_graph_one_way(blocks) ==
    LET pairs == PyImports(blocks) \cup JsImports(blocks)
    IN  [p \in {pr[1] : pr \in pairs} |-> {pr[2] : pr \in {x \in pairs : x[1] = p}}]

\* graph[a].add(b); graph[b].add(a) for every resolved pair; dict(graph)
\* has a key for every path with an edge
_build_import_graph(blocks) ==
    LET pairs == PyImports(blocks) \cup JsImports(blocks)
        keys == {pr[1] : pr \in pairs} \cup {pr[2] : pr \in pairs}
    IN  [p \in keys |->
            {pr[2] : pr \in {x \in pairs : x[1] = p}} \cup
            {pr[1] : pr \in {x \in pairs : x[2] = p}}]

\* Related finding no neighbour
Related_none(graph, path) == {}

\* graph.get(path, set())
Related(graph, path) == IF path \in DOMAIN graph THEN graph[path] ELSE {}

\* the orders in which a set can be iterated
Orders(S) == {s \in [1..Cardinality(S) -> S] : Range(s) = S}

----------------------------------------------------------------------------
\* CodeChunk and ChunkResult

\* units is a history field: the file lists of the units added to the
\* chunk, in the order of their addition
CodeChunk(chunk_id, fs, text, token_count, units) ==
    [chunk_id |-> chunk_id, files |-> fs, content |-> text,
     token_count |-> token_count, overlap_with_previous |-> 0,
     importance_score |-> 0, units |-> units]

\* NewSet handing back the set of the call before
NewSet_kept(previous) == previous

\* visited = set(), processed = set(): a set made by the call
NewSet(previous) == {}

\* EmptyChunk numbering every fresh chunk 0
EmptyChunk_id_zero(chunk_id) == CodeChunk(0, <<>>, <<>>, 0, <<>>)

EmptyChunk(chunk_id) == CodeChunk(chunk_id, <<>>, <<>>, 0, <<>>)

\* Exceeds comparing the open chunk alone with the budget
Exceeds_ignoring_unit(chunk, tokens) == chunk.token_count > max_tokens

\* Exceeds refusing a unit that fills the budget exactly
Exceeds_on_exact_fit(chunk, tokens) == chunk.token_count + tokens >= max_tokens

\* current_chunk.token_count + tokens > self.max_tokens
Exceeds(chunk, tokens) == chunk.token_count + tokens > max_tokens

\* SealIfAny appending the open chunk even when it holds no file
SealIfAny_empty_too(sealed, chunk) == Append(sealed, chunk)

\* SealIfAny putting the open chunk in the place of the last sealed one
SealIfAny_over_last(sealed, chunk) ==
    IF chunk.files = <<>> THEN sealed
    ELSE IF sealed = <<>> THEN << chunk >>
         ELSE [sealed EXCEPT ![Len(sealed)] = chunk]

\* if current_chunk.files: chunks.append(current_chunk)
SealIfAny(sealed, chunk) ==
    IF chunk.files # <<>> THEN Append(sealed, chunk) ELSE sealed

\* Extend putting the unit's text in front of the chunk's content
Extend_text_in_front(chunk, paths, text, tokens) ==
    [chunk EXCEPT !.files = @ \o paths,
                  !.content = text \o @,
                  !.token_count = @ + tokens,
                  !.units = Append(@, paths)]

\* files.extend(paths); content += text; token_count += tokens
Extend(chunk, paths, text, tokens) ==
    [chunk EXCEPT !.files = @ \o paths,
                  !.content = @ \o text,
                  !.token_count = @ + tokens,
                  !.units = Append(@, paths)]

Max(S) == CHOOSE x \in S : \A y \in S : y <= x

\* WithImportance recording the importance of the chunk's last file
WithImportance_of_last(chunk) ==
    [chunk EXCEPT !.importance_score =
        _file_importance(chunk.files[Len(chunk.files)], files)]

\* max(self._file_importance(f, files) for f in current_chunk.files)
WithImportance(chunk) ==
    [chunk EXCEPT !.importance_score =
        Max({_file_importance(chunk.files[k], files) : k \in 1..Len(chunk.files)})]

RECURSIVE SumOver(_, _)
SumOver(f, S) ==
    IF S = {} THEN 0
    ELSE LET x == CHOOSE y \in S : TRUE IN f[x] + SumOver(f, S \ {x})

\* {c.chunk_id: c.token_count for c in chunks}: the last chunk of an id
\* gives its entry
TokenDist(cs) ==
    [id \in {cs[k].chunk_id : k \in 1..Len(cs)} |->
        cs[CHOOSE k \in 1..Len(cs) :
              /\ cs[k].chunk_id = id
              /\ \A m \in (k + 1)..Len(cs) : cs[m].chunk_id # id].token_count]

ChunkResult(cs) ==
    [source |-> "", strategy |-> strategy, chunks |-> cs,
     total_chunks |-> Len(cs),
     total_tokens |-> SumOver(TokenDist(cs), DOMAIN TokenDist(cs)),
     token_distribution |-> TokenDist(cs),
     max_tokens_per_chunk |-> max_tokens, overlap_tokens |-> overlap]

----------------------------------------------------------------------------
\* The state after construction, with the arguments of the invocation

NoLocals ==
    /\ file_blocks = <<>>
    /\ import_graph = [p \in {} |-> {}]
    /\ sorted_dirs = <<>>
    /\ scored_files = <<>>
    /\ processed = {}
    /\ visited = {}
    /\ stack = <<>>
    /\ cluster = <<>>
    /\ clusters = <<>>
    /\ i = 1
    /\ j = 1
    /\ chunks = <<>>
    /\ current_chunk = EmptyChunk(0)

Init ==
    /\ content \in Contents
    /\ strategy \in Strategies
    \* only _chunk_hybrid reads files
    /\ files \in IF strategy = "hybrid" THEN {<<>>, FilesMeta} ELSE {<<>>}
    /\ max_tokens \in MaxTokensChoices
    /\ overlap \in OverlapChoices
    \* the constructor's default
    /\ preserve_context = TRUE
    /\ tiktoken \in BOOLEAN
    /\ pc = "start"
    /\ NoLocals
    /\ result = <<>>
    /\ run = 1
    /\ first_result = <<>>
    /\ suspended = <<>>

kept == <<inputs, preserve_context, result, run, first_result, suspended>>

----------------------------------------------------------------------------
\* _chunk_by_file

ChunkByFile ==
    /\ pc = "start"
    /\ strategy = "file"
    /\ file_blocks' = _split_by_files(content)
    /\ current_chunk' = EmptyChunk(0)
    /\ chunks' = <<>>
    /\ i' = 1
    /\ pc' = "file_loop"
    /\ UNCHANGED <<kept, import_graph, sorted_dirs, scored_files, processed,
                   visited, stack, cluster, clusters, j>>

\* StartWith counting the chunk being opened
StartWith_counting_itself(sealed, paths, text, tokens) ==
    CodeChunk(Len(sealed) + 1, paths, text, tokens, << paths >>)

\* a unit that does not fit starts a chunk of its own
StartWith(sealed, paths, text, tokens) ==
    CodeChunk(Len(sealed), paths, text, tokens, << paths >>)

FileStep ==
    /\ pc = "file_loop"
    /\ i <= Len(file_blocks)
    /\ LET path == file_blocks[i].path
           file_content == BlockText(file_blocks, path)
           tokens == _count_tokens(file_blocks, file_content)
           sealed == SealIfAny(chunks, current_chunk)
       IN  IF Exceeds(current_chunk, tokens)
           THEN /\ chunks' = sealed
                /\ current_chunk' = StartWith(sealed, << path >>, file_content, tokens)
           ELSE /\ chunks' = chunks
                /\ current_chunk' = Extend(current_chunk, << path >>, file_content, tokens)
    /\ i' = i + 1
    /\ UNCHANGED <<kept, pc, file_blocks, import_graph, sorted_dirs, scored_files,
                   processed, visited, stack, cluster, clusters, j>>

FileSeal ==
    /\ pc = "file_loop"
    /\ i > Len(file_blocks)
    /\ chunks' = SealIfAny(chunks, current_chunk)
    /\ pc' = "assemble"
    /\ UNCHANGED <<kept, file_blocks, import_graph, sorted_dirs, scored_files,
                   processed, visited, stack, cluster, clusters, i, j, current_chunk>>

----------------------------------------------------------------------------
\* _chunk_by_directory

\* the keys of dir_files, in the order of their first file
RECURSIVE DirKeys(_, _)
DirKeys(paths, seen) ==
    IF paths = <<>> THEN seen
    ELSE DirKeys(Tail(paths),
                 IF Parent(Head(paths)) \in Range(seen) THEN seen
                 ELSE Append(seen, Parent(Head(paths))))

\* dir_files[dir_path]: the paths of the directory, in split order
DirPaths(blocks, dir) ==
    LET InDir(p) == Parent(p) = dir IN SelectSeq(Keys(blocks), InDir)

\* SortedDirs leaving the directories in the order of their first file
SortedDirs_unsorted(blocks) == DirKeys(Keys(blocks), <<>>)

SortedDirs(blocks) ==
    LET dirs == DirKeys(Keys(blocks), <<>>)
        scored == [k \in 1..Len(dirs) |->
                      [dir |-> dirs[k], key |-> _dir_importance(dirs[k])]]
        sorted == SortDesc(scored)
    IN  [k \in 1..Len(sorted) |-> sorted[k].dir]

ChunkByDirectory ==
    /\ pc = "start"
    /\ strategy = "directory"
    /\ file_blocks' = _split_by_files(content)
    /\ sorted_dirs' = SortedDirs(file_blocks')
    /\ current_chunk' = EmptyChunk(0)
    /\ chunks' = <<>>
    /\ i' = 1
    /\ pc' = "dir_loop"
    /\ UNCHANGED <<kept, import_graph, scored_files, processed,
                   visited, stack, cluster, clusters, j>>

DirStep ==
    /\ pc = "dir_loop"
    /\ i <= Len(sorted_dirs)
    /\ LET dir_paths == DirPaths(file_blocks, sorted_dirs[i])
           dir_content == JoinBlocks(file_blocks, dir_paths)
           tokens == _count_tokens(file_blocks, dir_content)
           sealed == SealIfAny(chunks, current_chunk)
       IN  IF tokens > max_tokens
           THEN /\ pc' = "dir_split"
                /\ j' = 1
                /\ UNCHANGED <<chunks, current_chunk, i>>
           ELSE /\ IF Exceeds(current_chunk, tokens)
                   THEN /\ chunks' = sealed
                        /\ current_chunk' = StartWith(sealed, dir_paths, dir_content, tokens)
                   ELSE /\ chunks' = chunks
                        /\ current_chunk' = Extend(current_chunk, dir_paths, dir_content, tokens)
                /\ i' = i + 1
                /\ UNCHANGED <<pc, j>>
    /\ UNCHANGED <<kept, file_blocks, import_graph, sorted_dirs, scored_files,
                   processed, visited, stack, cluster, clusters>>

\* Directory too large, split files
DirSplitStep ==
    /\ pc = "dir_split"
    /\ j <= Len(DirPaths(file_blocks, sorted_dirs[i]))
    /\ LET path == DirPaths(file_blocks, sorted_dirs[i])[j]
           file_content == BlockText(file_blocks, path)
           file_tokens == _count_tokens(file_blocks, file_content)
           sealed == SealIfAny(chunks, current_chunk)
       IN  IF Exceeds(current_chunk, file_tokens)
           THEN /\ chunks' = sealed
                /\ current_chunk' = Extend(EmptyChunk(Len(sealed)), << path >>,
                                           file_content, file_tokens)
           ELSE /\ chunks' = chunks
                /\ current_chunk' = Extend(current_chunk, << path >>,
                                           file_content, file_tokens)
    /\ j' = j + 1
    /\ UNCHANGED <<kept, pc, file_blocks, import_graph, sorted_dirs, scored_files,
                   processed, visited, stack, cluster, clusters, i>>

DirSplitDone ==
    /\ pc = "dir_split"
    /\ j > Len(DirPaths(file_blocks, sorted_dirs[i]))
    /\ pc' = "dir_loop"
    /\ i' = i + 1
    /\ UNCHANGED <<kept, file_blocks, import_graph, sorted_dirs, scored_files,
                   processed, visited, stack, cluster, clusters, j, chunks,
                   current_chunk>>

DirSeal ==
    /\ pc = "dir_loop"
    /\ i > Len(sorted_dirs)
    /\ chunks' = SealIfAny(chunks, current_chunk)
    /\ pc' = "assemble"
    /\ UNCHANGED <<kept, file_blocks, import_graph, sorted_dirs, scored_files,
                   processed, visited, stack, cluster, clusters, i, j, current_chunk>>

----------------------------------------------------------------------------
\* _chunk_semantic and _find_clusters

ChunkSemantic ==
    /\ pc = "start"
    /\ strategy = "semantic"
    /\ file_blocks' = _split_by_files(content)
    /\ import_graph' = _build_import_graph(file_blocks')
    /\ visited' = NewSet(visited)
    /\ clusters' = <<>>
    /\ chunks' = <<>>
    /\ i' = 1
    /\ pc' = "find_clusters"
    /\ UNCHANGED <<kept, sorted_dirs, scored_files, processed, stack, cluster,
                   j, current_chunk>>

\* Seen with the visited set ignored
Seen_never(node, seen) == FALSE

\* node in visited
Seen(node, seen) == node \in seen

\* for start in file_blocks.keys(): a visited start is passed over
ClusterStart ==
    /\ pc = "find_clusters"
    /\ i <= Len(file_blocks)
    /\ IF Seen(file_blocks[i].path, visited)
       THEN /\ i' = i + 1
            /\ UNCHANGED <<pc, cluster, stack>>
       ELSE /\ cluster' = <<>>
            /\ stack' = << file_blocks[i].path >>
            /\ pc' = "cluster_search"
            /\ UNCHANGED i
    /\ UNCHANGED <<kept, file_blocks, import_graph, sorted_dirs, scored_files,
                   processed, visited, clusters, j, chunks, current_chunk>>

\* Unvisited pushing no neighbour
Unvisited_none(order, seen) == <<>>

\* the neighbours not yet visited, in the order the set is iterated
Unvisited(order, seen) ==
    LET New(n) == ~Seen(n, seen) IN SelectSeq(order, New)

\* one turn of "while stack"
ClusterVisit ==
    /\ pc = "cluster_search"
    /\ stack # <<>>
    /\ LET node == stack[Len(stack)]
           rest == SubSeq(stack, 1, Len(stack) - 1)
       IN  IF Seen(node, visited)
           THEN /\ stack' = rest
                /\ UNCHANGED <<visited, cluster>>
           ELSE /\ visited' = visited \cup {node}
                /\ cluster' = Append(cluster, node)
                /\ \E order \in Orders(Related(import_graph, node)) :
                       stack' = rest \o Unvisited(order, visited')
    /\ UNCHANGED <<kept, pc, file_blocks, import_graph, sorted_dirs, scored_files,
                   processed, clusters, i, j, chunks, current_chunk>>

ClusterClose ==
    /\ pc = "cluster_search"
    /\ stack = <<>>
    /\ clusters' = IF cluster # <<>> THEN Append(clusters, cluster) ELSE clusters
    /\ i' = i + 1
    /\ pc' = "find_clusters"
    /\ UNCHANGED <<kept, file_blocks, import_graph, sorted_dirs, scored_files,
                   processed, visited, stack, cluster, j, chunks, current_chunk>>

ClustersFound ==
    /\ pc = "find_clusters"
    /\ i > Len(file_blocks)
    /\ current_chunk' = EmptyChunk(0)
    /\ i' = 1
    /\ pc' = "semantic_loop"
    /\ UNCHANGED <<kept, file_blocks, import_graph, sorted_dirs, scored_files,
                   processed, visited, stack, cluster, clusters, j, chunks>>

\* the blocks of the paths of a unit that are keys of file_blocks
UnitContent(blocks, paths) ==
    LET Known(p) == HasKey(blocks, p) IN JoinBlocks(blocks, SelectSeq(paths, Known))

SemanticStep ==
    /\ pc = "semantic_loop"
    /\ i <= Len(clusters)
    /\ LET cluster_files == clusters[i]
           cluster_content == UnitContent(file_blocks, cluster_files)
           tokens == _count_tokens(file_blocks, cluster_content)
           sealed == SealIfAny(chunks, current_chunk)
       IN  IF Exceeds(current_chunk, tokens)
           THEN /\ chunks' = sealed
                /\ current_chunk' = Extend(EmptyChunk(Len(sealed)), cluster_files,
                                           cluster_content, tokens)
           ELSE /\ chunks' = chunks
                /\ current_chunk' = Extend(current_chunk, cluster_files,
                                           cluster_content, tokens)
    /\ i' = i + 1
    /\ UNCHANGED <<kept, pc, file_blocks, import_graph, sorted_dirs, scored_files,
                   processed, visited, stack, cluster, clusters, j>>

SemanticSeal ==
    /\ pc = "semantic_loop"
    /\ i > Len(clusters)
    /\ chunks' = SealIfAny(chunks, current_chunk)
    /\ pc' = "assemble"
    /\ UNCHANGED <<kept, file_blocks, import_graph, sorted_dirs, scored_files,
                   processed, visited, stack, cluster, clusters, i, j, current_chunk>>

----------------------------------------------------------------------------
\* _chunk_hybrid and _add_overlap

\* ScoredFiles left in split order
ScoredFiles_in_split_order(blocks, fs) ==
    [k \in 1..Len(blocks) |->
        [path |-> blocks[k].path, key |-> _file_importance(blocks[k].path, fs)]]

\* scored_files, sorted by importance (the block is read from file_blocks)
ScoredFiles(blocks, fs) ==
    SortDesc([k \in 1..Len(blocks) |->
                 [path |-> blocks[k].path,
                  key |-> _file_importance(blocks[k].path, fs)]])

ChunkHybrid ==
    /\ pc = "start"
    /\ strategy = "hybrid"
    /\ file_blocks' = _split_by_files(content)
    /\ scored_files' = ScoredFiles(file_blocks', files)
    /\ import_graph' = _build_import_graph(file_blocks')
    /\ processed' = NewSet(processed)
    /\ current_chunk' = EmptyChunk(0)
    /\ chunks' = <<>>
    /\ i' = 1
    /\ pc' = "hybrid_loop"
    /\ UNCHANGED <<kept, sorted_dirs, visited, stack, cluster, clusters, j>>

\* if path in processed: continue
HybridSkip ==
    /\ pc = "hybrid_loop"
    /\ i <= Len(scored_files)
    /\ scored_files[i].path \in processed
    /\ i' = i + 1
    /\ UNCHANGED <<kept, pc, file_blocks, import_graph, sorted_dirs, scored_files,
                   processed, visited, stack, cluster, clusters, j, chunks,
                   current_chunk>>

\* Group taking every related file, processed or not
Group_with_processed(path, order, done, blocks) ==
    LET Known(r) == HasKey(blocks, r) IN << path >> \o SelectSeq(order, Known)

\* [path] + [r for r in related if r not in processed and r in file_blocks]
Group(path, order, done, blocks) ==
    LET Free(r) == r \notin done /\ HasKey(blocks, r)
    IN  << path >> \o SelectSeq(order, Free)

\* if current_chunk.files: set importance_score, chunks.append(current_chunk)
SealScored(sealed, chunk) ==
    IF chunk.files # <<>> THEN Append(sealed, WithImportance(chunk)) ELSE sealed

HybridStep ==
    /\ pc = "hybrid_loop"
    /\ i <= Len(scored_files)
    /\ scored_files[i].path \notin processed
    /\ \E order \in Orders(Related(import_graph, scored_files[i].path)) :
         LET group == Group(scored_files[i].path, order, processed, file_blocks)
             group_content == UnitContent(file_blocks, group)
             tokens == _count_tokens(file_blocks, group_content)
             sealed == SealScored(chunks, current_chunk)
         IN  /\ processed' = processed \cup Range(group)
             /\ IF Exceeds(current_chunk, tokens)
                THEN /\ chunks' = sealed
                     /\ current_chunk' = Extend(EmptyChunk(Len(sealed)), group,
                                                group_content, tokens)
                ELSE /\ chunks' = chunks
                     /\ current_chunk' = Extend(current_chunk, group,
                                                group_content, tokens)
    /\ i' = i + 1
    /\ UNCHANGED <<kept, pc, file_blocks, import_graph, sorted_dirs, scored_files,
                   visited, stack, cluster, clusters, j>>

\* OverlapPass made only by a chunker built with preserve_context
OverlapPass_if_preserving(sealed) ==
    preserve_context /\ overlap > 0 /\ Len(sealed) > 1

\* OverlapPass whatever the configured overlap
OverlapPass_any_overlap(sealed) == Len(sealed) > 1

\* if self.overlap > 0 and len(chunks) > 1
OverlapPass(sealed) == overlap > 0 /\ Len(sealed) > 1

HybridSeal ==
    /\ pc = "hybrid_loop"
    /\ i > Len(scored_files)
    /\ chunks' = SealScored(chunks, current_chunk)
    /\ pc' = IF OverlapPass(chunks') THEN "overlap" ELSE "assemble"
    /\ i' = 2
    /\ UNCHANGED <<kept, file_blocks, import_graph, sorted_dirs, scored_files,
                   processed, visited, stack, cluster, clusters, j, current_chunk>>

OverlapCharsPerToken == 4

Marker == << Piece("marker", NoPath, 1, MarkerLen) >>
Gap == << Piece("gap", NoPath, 1, GapLen) >>

\* Injects without the length test
Injects_always(prev_content) == TRUE

\* if len(prev_content) > overlap_chars
Injects(prev_content) == TextLen(prev_content) > overlap * OverlapCharsPerToken

\* WithOverlap leaving token_count as packing left it
WithOverlap_uncounted(chunk, prev_content) ==
    [chunk EXCEPT
        !.content = Marker \o Suffix(prev_content, overlap * OverlapCharsPerToken)
                           \o Gap \o @,
        !.overlap_with_previous = overlap]

\* the chunk with the tail of prev_content put before its content
WithOverlap(chunk, prev_content) ==
    [chunk EXCEPT
        !.content = Marker \o Suffix(prev_content, overlap * OverlapCharsPerToken)
                           \o Gap \o @,
        !.overlap_with_previous = overlap,
        !.token_count = @ + overlap]

\* one turn of "for i in range(1, len(chunks))" of _add_overlap
OverlapStep ==
    /\ pc = "overlap"
    /\ i <= Len(chunks)
    /\ chunks' = IF Injects(chunks[i - 1].content)
                 THEN [chunks EXCEPT ![i] = WithOverlap(@, chunks[i - 1].content)]
                 ELSE chunks
    /\ i' = i + 1
    /\ UNCHANGED <<kept, pc, file_blocks, import_graph, sorted_dirs, scored_files,
                   processed, visited, stack, cluster, clusters, j, current_chunk>>

OverlapDone ==
    /\ pc = "overlap"
    /\ i > Len(chunks)
    /\ pc' = "assemble"
    /\ UNCHANGED <<kept, locals>>

----------------------------------------------------------------------------
\* chunk(): the result

Assemble ==
    /\ pc = "assemble"
    /\ result' = << ChunkResult(chunks) >>
    /\ pc' = "done"
    /\ UNCHANGED <<inputs, preserve_context, locals, run, first_result, suspended>>

\* chunk() called again with the same arguments.  The locals of the new call
\* are not yet assigned: they are left with what the call before put in
\* them, and each strategy assigns those it reads.
Reinvoke ==
    /\ pc = "done"
    /\ run = 1
    /\ suspended = <<>>
    /\ first_result' = result
    /\ result' = <<>>
    /\ run' = 2
    /\ pc' = "start"
    /\ UNCHANGED <<inputs, preserve_context, locals, suspended>>

\* the frame of the running call: its position and its locals
Frame ==
    [pc |-> pc,
     file_blocks |-> file_blocks,
     import_graph |-> import_graph,
     sorted_dirs |-> sorted_dirs,
     scored_files |-> scored_files,
     processed |-> processed,
     visited |-> visited,
     stack |-> stack,
     cluster |-> cluster,
     clusters |-> clusters,
     i |-> i,
     j |-> j,
     chunks |-> chunks,
     current_chunk |-> current_chunk]

\* A second call of chunk() on the same chunker, with the same arguments,
\* begins while the first is between two steps (another thread): the first
\* call's frame is set aside.
Preempt ==
    /\ pc # "done"
    /\ run = 1
    /\ suspended = <<>>
    /\ suspended' = << Frame >>
    /\ run' = 2
    /\ pc' = "start"
    /\ UNCHANGED <<inputs, preserve_context, locals, result, first_result>>

\* The second call has returned; the first goes on from where it was.
Resume ==
    /\ pc = "done"
    /\ run = 2
    /\ suspended # <<>>
    /\ first_result' = result
    /\ result' = <<>>
    /\ run' = 3
    /\ pc' = suspended[1].pc
    /\ file_blocks' = suspended[1].file_blocks
    /\ import_graph' = suspended[1].import_graph
    /\ sorted_dirs' = suspended[1].sorted_dirs
    /\ scored_files' = suspended[1].scored_files
    /\ processed' = suspended[1].processed
    /\ visited' = suspended[1].visited
    /\ stack' = suspended[1].stack
    /\ cluster' = suspended[1].cluster
    /\ clusters' = suspended[1].clusters
    /\ i' = suspended[1].i
    /\ j' = suspended[1].j
    /\ chunks' = suspended[1].chunks
    /\ current_chunk' = suspended[1].current_chunk
    /\ suspended' = <<>>
    /\ UNCHANGED <<inputs, preserve_context>>

Next ==
    \/ ChunkByFile \/ FileStep \/ FileSeal
    \/ ChunkByDirectory \/ DirStep \/ DirSplitStep \/ DirSplitDone \/ DirSeal
    \/ ChunkSemantic \/ ClusterStart \/ ClusterVisit \/ ClusterClose
    \/ ClustersFound \/ SemanticStep \/ SemanticSeal
    \/ ChunkHybrid \/ HybridSkip \/ HybridStep \/ HybridSeal
    \/ OverlapStep \/ OverlapDone
    \/ Assemble

Spec == Init /\ [][Next]_vars

NextTwice == Next \/ Reinvoke

SpecTwice == Init /\ [][NextTwice]_vars

\* A chunker built with the same max_tokens and overlap_tokens and the other
\* value of preserve_context is given the call the first chunker has
\* returned from: same content, files and strategy.  The locals of the new
\* call are not yet assigned.
Rebuild ==
    /\ pc = "done"
    /\ run = 1
    /\ suspended = <<>>
    /\ preserve_context' = ~preserve_context
    /\ first_result' = result
    /\ result' = <<>>
    /\ run' = 2
    /\ pc' = "start"
    /\ UNCHANGED <<inputs, locals, suspended>>

NextRebuilt == Next \/ Rebuild

SpecRebuilt == Init /\ [][NextRebuilt]_vars

NextInterleaved == Next \/ Reinvoke \/ Preempt \/ Resume

SpecInterleaved == Init /\ [][NextInterleaved]_vars

----------------------------------------------------------------------------
\* Properties

\* the paths _split_by_files recognises in the content, in split order
Recognised == Keys(_split_by_files(content))

\* the chunks of the returned result
Returned == result[1].chunks

\* the token count of a file's own block
OwnTokens(path) == _count_tokens(file_blocks, BlockText(file_blocks, path))

\* the token cost of a unit: the count of its blocks, concatenated
UnitCost(unit) == _count_tokens(file_blocks, UnitContent(file_blocks, unit))

\* the open chunk and the sealed chunks
AllChunks == Range(chunks) \cup {current_chunk}

\* the chunks of a state: sealed, open and, once returned, the result's
Held == AllChunks \cup (IF pc = "done" THEN Range(Returned) ELSE {})

\* whether the chunk's content starts with the context marker
HasOverlap(chunk) == chunk.content # <<>> /\ Head(chunk.content).kind = "marker"

\* C1: in the returned result of every strategy, the union of the chunks'
\* file paths is exactly the set of recognised paths, and no path is in
\* two different chunks.
C1_Coverage ==
    pc = "done" =>
        /\ UNION {Range(Returned[k].files) : k \in 1..Len(Returned)}
               = Range(Recognised)
        /\ \A a, b \in 1..Len(Returned) :
               a # b => Range(Returned[a].files) \cap Range(Returned[b].files) = {}

\* a hybrid result of three related files spread over two or more chunks
C1_Witness ==
    /\ pc = "done"
    /\ strategy = "hybrid"
    /\ Len(Recognised) = 3
    /\ Len(Returned) >= 2
    /\ DOMAIN import_graph = Range(Recognised)

\* C2: in the file, directory and semantic strategies a chunk, sealed or
\* open, exceeds max_tokens only if it holds exactly one unit whose own
\* cost exceeds max_tokens.
C2_SoftBudget ==
    strategy # "hybrid" =>
        \A c \in AllChunks :
            \/ c.token_count <= max_tokens
            \/ Len(c.units) = 1 /\ UnitCost(c.units[1]) > max_tokens

\* a directory result holding an oversized single-file chunk and a chunk
\* of two units within the budget
C2_Witness ==
    /\ pc = "done"
    /\ strategy = "directory"
    /\ \E c \in Range(Returned) : c.token_count > max_tokens
    /\ \E c \in Range(Returned) : Len(c.units) >= 2

Assignment(res) == [k \in 1..Len(res.chunks) |-> res.chunks[k].files]

\* C4: a second invocation with the same content, files, strategy,
\* max_tokens and overlap_tokens returns the same file list, in the same
\* order, for every chunk, and the same total_tokens.
C4_Determinism ==
    (pc = "done" /\ run = 2) =>
        /\ Assignment(result[1]) = Assignment(first_result[1])
        /\ result[1].total_tokens = first_result[1].total_tokens

\* C5: when the content holds no delimiter match (it is empty or plain
\* text), every strategy returns a result with no chunk, total_chunks = 0,
\* total_tokens = 0 and an empty token_distribution.
C5_EmptyInput ==
    (pc = "done" /\ Recognised = <<>>) =>
        /\ Returned = <<>>
        /\ result[1].total_chunks = 0
        /\ result[1].total_tokens = 0
        /\ DOMAIN result[1].token_distribution = {}

\* a result for a content that is not empty and matches no delimiter
C5_Witness ==
    /\ pc = "done"
    /\ content # <<>>
    /\ Recognised = <<>>
    /\ result # <<>>

\* C6: when the content holds exactly one file and its token count exceeds
\* max_tokens, every strategy returns exactly one chunk, with chunk_id 0,
\* that file alone in its file list, the file's own token count and no
\* overlap.
C6_SingleOversizedFile ==
    (/\ pc = "done"
     /\ Len(Recognised) = 1
     /\ OwnTokens(Recognised[1]) > max_tokens) =>
        /\ Len(Returned) = 1
        /\ Returned[1].chunk_id = 0
        /\ Returned[1].files = << Recognised[1] >>
        /\ Returned[1].token_count = OwnTokens(Recognised[1])
        /\ Returned[1].overlap_with_previous = 0

\* the chunk, of the returned chunks, that holds the path
ChunkOf(path) == CHOOSE k \in 1..Len(Returned) : path \in Range(Returned[k].files)

\* a and b are related, c is related to neither, any two of the three
\* files fit max_tokens and the three together do not
LinkedPairAndStranger(a, b, c) ==
    /\ b \in Related(import_graph, a)
    /\ c \notin Related(import_graph, a) \cup Related(import_graph, b)
    /\ OwnTokens(a) + OwnTokens(b) <= max_tokens
    /\ OwnTokens(a) + OwnTokens(c) <= max_tokens
    /\ OwnTokens(b) + OwnTokens(c) <= max_tokens
    /\ OwnTokens(a) + OwnTokens(b) + OwnTokens(c) > max_tokens

C8_TwoFiles ==
    (pc = "done" /\ strategy = "file" /\ Len(Recognised) = 2) =>
        IF OwnTokens(Recognised[1]) + OwnTokens(Recognised[2]) > max_tokens
        THEN Assignment(result[1]) = << << Recognised[1] >>, << Recognised[2] >> >>
        ELSE Assignment(result[1]) = << << Recognised[1], Recognised[2] >> >>

\* two files whose token counts together are exactly max_tokens
C8_Witness ==
    /\ pc = "done"
    /\ strategy = "file"
    /\ Len(Recognised) = 2
    /\ OwnTokens(Recognised[1]) + OwnTokens(Recognised[2]) = max_tokens
    /\ Len(Returned) = 1

\* C9: the returned result has total_chunks = len(chunks), one
\* token_distribution entry per chunk, and total_tokens equal both to the
\* sum of the token_distribution values and to the sum of the chunks'
\* token_count.
C9_ResultConsistency ==
    pc = "done" =>
        /\ result[1].total_chunks = Len(Returned)
        /\ Cardinality(DOMAIN result[1].token_distribution) = Len(Returned)
        /\ result[1].total_tokens =
               SumOver(result[1].token_distribution,
                       DOMAIN result[1].token_distribution)
        /\ result[1].total_tokens =
               SumSeq([k \in 1..Len(Returned) |-> Returned[k].token_count])

\* a result of three chunks
C9_Witness ==
    /\ pc = "done"
    /\ Len(Returned) = 3
    /\ result[1].total_tokens > 0

\* C10: at every point of packing and in the result, a chunk's token_count
\* is the sum of the costs of the units added to it, plus overlap_tokens
\* exactly when overlap was put before its content.
C10_TokenAccounting ==
    \A c \in AllChunks \cup (IF pc = "done" THEN Range(Returned) ELSE {}) :
        c.token_count =
            SumSeq([k \in 1..Len(c.units) |-> UnitCost(c.units[k])])
            + (IF HasOverlap(c) THEN overlap ELSE 0)

\* a result with a chunk of two units and a chunk with overlap before its
\* content
C10_Witness ==
    /\ pc = "done"
    /\ \E c \in Range(Returned) : Len(c.units) = 2
    /\ \E c \in Range(Returned) : HasOverlap(c) /\ c.token_count > overlap

\* the estimate of a unit's text: len(text) // 4 when the estimator raises
\* on it, the encoder's count otherwise
RecoveredCost(unit) ==
    LET text == UnitContent(file_blocks, unit)
    IN  IF Raises(file_blocks, text) THEN TextLen(text) \div 4
        ELSE TikLen(file_blocks, text)

\* C11: a call of the estimator that raises yields len(text) // 4 for its
\* text, so every chunk's token_count is made of the encoder's counts and of
\* the fallback estimates of the units it raised on, and the result chunk()
\* returns is a consistent ChunkResult.
C11_EstimatorFailureRecovered ==
    /\ \A c \in Held :
           c.token_count =
               SumSeq([k \in 1..Len(c.units) |-> RecoveredCost(c.units[k])])
               + (IF HasOverlap(c) THEN overlap ELSE 0)
    /\ pc = "done" =>
           /\ result[1].total_chunks = Len(Returned)
           /\ result[1].total_tokens =
                  SumSeq([k \in 1..Len(Returned) |-> Returned[k].token_count])
           /\ result[1].strategy = strategy

\* tiktoken is usable, and the result holds a chunk of a unit the encoder
\* raised on and a chunk of a unit it counted
C11_Witness ==
    /\ pc = "done"
    /\ tiktoken
    /\ \E c \in Range(Returned) :
           Raises(file_blocks, UnitContent(file_blocks, c.units[1]))
    /\ \E c \in Range(Returned) :
           ~Raises(file_blocks, UnitContent(file_blocks, c.units[1]))

\* the visited files of an invocation that has a cluster search
NoRevisit ==
    /\ \A a, b \in 1..Len(cluster) : cluster[a] = cluster[b] => a = b
    /\ \A m, n \in 1..Len(clusters) : \A a \in 1..Len(clusters[m]) :
           \A b \in 1..Len(clusters[n]) :
               clusters[m][a] = clusters[n][b] => (m = n /\ a = b)

\* the steps chunk() has left at most: a natural number that every step
\* of an invocation lowers
Variant ==
    LET M == Len(content)
        Left(n) == n - i + 1
    IN  CASE pc = "done" -> 0
          [] pc = "assemble" -> 1
          [] pc = "overlap" -> 2 + Left(Len(chunks))
          [] pc = "file_loop" -> 2 + Left(Len(file_blocks))
          [] pc = "semantic_loop" -> 2 + Left(Len(clusters))
          [] pc = "hybrid_loop" -> M + 3 + Left(Len(scored_files))
          [] pc = "dir_loop" -> 2 + Left(Len(sorted_dirs)) * (M + 2)
          [] pc = "dir_split" ->
                 2 + (Left(Len(sorted_dirs)) - 1) * (M + 2) + 1
                   + (Len(DirPaths(file_blocks, sorted_dirs[i])) - j + 1)
          [] pc \in {"find_clusters", "cluster_search"} ->
                 M + 3 + 3 * Left(Len(file_blocks))
                   + (IF pc = "find_clusters" THEN 2 ELSE 0)
                   + (Len(file_blocks) - Cardinality(visited)) * (M + 1)
                   + Len(stack)
          [] pc = "start" -> M * M + 5 * M + 6

\* C12: every invocation of chunk() terminates, whatever the strategy and
\* whatever cycles or self-references the import relation holds: a step is
\* possible until chunk() has returned and every step lowers a natural
\* number; the cluster search puts each file in a cluster at most once.
C12_Termination ==
    [][/\ Variant \in Nat /\ Variant' \in Nat /\ Variant' < Variant
       /\ NoRevisit /\ NoRevisit'
       /\ (pc' # "done" => (ENABLED Next)')]_vars

\* a cluster search over a cycle of three files: the file on top of the
\* work-list was visited since it was pushed
C12_Witness ==
    /\ pc = "cluster_search"
    /\ stack # <<>>
    /\ stack[Len(stack)] \in visited
    /\ Len(cluster) = 3

\* C13: in every strategy the chunk at position k (from 0) of the sealed
\* list, and of the returned list, has chunk_id = k, and the open chunk has
\* the id of the next position, also when the empty open chunk was
\* discarded instead of sealed.
C13_SequentialIds ==
    /\ \A k \in 1..Len(chunks) : chunks[k].chunk_id = k - 1
    /\ pc \in {"file_loop", "dir_loop", "dir_split", "semantic_loop", "hybrid_loop"}
           => current_chunk.chunk_id = Len(chunks)
    /\ pc = "done" => \A k \in 1..Len(Returned) : Returned[k].chunk_id = k - 1

\* a result of three chunks whose first unit did not fit the empty open
\* chunk
C13_Witness ==
    /\ pc = "done"
    /\ Len(Returned) = 3
    /\ Returned[1].token_count > max_tokens
    /\ Len(Returned[1].units) = 1

\* the neighbour sets of the content's import relation hold one path at
\* most, so that their iteration has one order
OneOrder ==
    LET graph == _build_import_graph(_split_by_files(content))
    IN  \A p \in DOMAIN graph : Cardinality(graph[p]) <= 1

Neighbours(p) == IF p \in DOMAIN import_graph THEN import_graph[p] ELSE {}

\* the paths a path of relations leads to from the paths of S
RECURSIVE ReachFrom(_)
ReachFrom(S) ==
    LET T == S \cup UNION {Neighbours(p) : p \in S}
    IN  IF T = S THEN S ELSE ReachFrom(T)

\* the cluster, of the clusters found, that holds the path
ClusterOf(p) == CHOOSE k \in 1..Len(clusters) : p \in Range(clusters[k])

\* C15: the clusters _find_clusters returns are the connected components
\* of the import relation: together they hold every file of file_blocks,
\* no file is in two of them or twice in one, two files are in one cluster
\* exactly when a path of relations joins them, and a file without
\* relations is a cluster by itself.
C15_ClustersAreComponents ==
    (strategy = "semantic" /\ pc \in {"semantic_loop", "assemble", "done"}) =>
        LET all == Range(Keys(file_blocks))
        IN  /\ UNION {Range(clusters[k]) : k \in 1..Len(clusters)} = all
            /\ NoRevisit
            /\ \A a, b \in all :
                   ClusterOf(a) = ClusterOf(b) <=> b \in ReachFrom({a})
            /\ \A a \in all :
                   Neighbours(a) = {} => clusters[ClusterOf(a)] = << a >>

\* a cluster of two related files behind the cluster of a file with no
\* relation
C15_Witness ==
    /\ strategy = "semantic"
    /\ pc = "semantic_loop"
    /\ Len(clusters) = 2
    /\ Len(clusters[1]) = 1
    /\ Neighbours(clusters[1][1]) = {}
    /\ Len(clusters[2]) = 2

\* a has an import that resolves to b: a Python module name that is b's, or
\* a relative JS/TS import string b's path ends with
ImportsFrom(a, b) ==
    LET body == BlockOf(file_blocks, a)
    IN  \/ a.ext = ".py" /\ _path_to_module(b) \in body.py_imports
        \/ /\ a.ext \in {".js", ".ts", ".jsx", ".tsx"}
           /\ \E imp \in body.js_imports :
                  /\ Head(imp) \in {".", ".."}
                  /\ JsMatches(b, _resolve_js_import(a, imp))

\* C16: in the graph _build_import_graph returns, b is a neighbour of a
\* exactly when a is a neighbour of b, every key and every neighbour is a key
\* of file_blocks, and an edge joins two files only if an import of one
\* resolves to the other (an import that resolves to no file adds none).
C16_GraphSymmetricAndClosed ==
    (strategy \in {"semantic", "hybrid"} /\ pc # "start") =>
        LET all == Range(Keys(file_blocks))
        IN  /\ DOMAIN import_graph \subseteq all
            /\ \A a \in DOMAIN import_graph :
                   /\ import_graph[a] \subseteq all
                   /\ import_graph[a] # {}
                   /\ \A b \in import_graph[a] :
                          /\ b \in DOMAIN import_graph
                          /\ a \in import_graph[b]
                          /\ ImportsFrom(a, b) \/ ImportsFrom(b, a)

\* a graph with an edge whose importer also has an import that resolves to
\* no file of the batch, and an imported file that imports nothing
C16_Witness ==
    /\ strategy = "semantic"
    /\ pc = "find_clusters"
    /\ \E a \in DOMAIN import_graph :
           /\ BlockOf(file_blocks, a).py_imports \ Modules(file_blocks) # {}
           /\ \E b \in import_graph[a] : ~ImportsFrom(b, a) /\ b # a

\* the chunk is as packing made it: the blocks of its files, the costs of
\* its units, no overlap recorded
AsPacked(c) ==
    /\ c.overlap_with_previous = 0
    /\ c.content = JoinBlocks(file_blocks, c.files)
    /\ c.token_count = SumSeq([k \in 1..Len(c.units) |-> UnitCost(c.units[k])])

\* C17: every chunk returned by the file, directory and semantic
\* strategies, and by hybrid when overlap_tokens = 0 or one chunk at most
\* exists, has overlap_with_previous = 0 and the content and token_count
\* packing gave it; chunk 0 is so in every result.
C17_OverlapFrame ==
    pc = "done" =>
        /\ (strategy # "hybrid" \/ overlap = 0 \/ Len(Returned) <= 1) =>
               \A k \in 1..Len(Returned) : AsPacked(Returned[k])
        /\ Returned # <<>> => AsPacked(Returned[1])

\* a directory result of three chunks with a positive overlap configured
C17_Witness ==
    /\ pc = "done"
    /\ strategy = "directory"
    /\ overlap > 0
    /\ Len(Returned) = 3
    /\ TextLen(Returned[1].content) > 4 * overlap

\* the content packing gave the chunk: the blocks of its files
Raw(c) == JoinBlocks(file_blocks, c.files)

\* C18: every chunk after the first that receives overlap holds the marker,
\* the last 4 * overlap_tokens characters of the content packing gave the
\* chunk before it (nothing of the marker or of the text copied into that
\* chunk), a blank line and its own content, and its token_count is the
\* one packing gave it plus overlap_tokens.
C18_OverlapFromRawContent ==
    (pc = "done" /\ strategy = "hybrid") =>
        \A k \in 2..Len(Returned) :
            Returned[k].overlap_with_previous > 0 =>
                /\ Returned[k].content =
                       Marker \o Suffix(Raw(Returned[k - 1]), 4 * overlap)
                              \o Gap \o Raw(Returned[k])
                /\ Returned[k].token_count =
                       SumSeq([n \in 1..Len(Returned[k].units) |->
                                  UnitCost(Returned[k].units[n])]) + overlap

\* the file lists of the chunks, one after the other in chunk-id order
RECURSIVE FileOrder(_)
FileOrder(cs) == IF cs = <<>> THEN <<>> ELSE Head(cs).files \o FileOrder(Tail(cs))

\* the place of a file in a list that holds it
PlaceIn(list, f) == CHOOSE k \in 1..Len(list) : list[k] = f

\* the place, in the content, of the first delimited block of a directory
FirstInContent(dir) ==
    CHOOSE k \in 1..Len(content) :
        /\ content[k].kind # "TEXT" /\ Parent(NormalizePath(content[k].raw)) = dir
        /\ \A m \in 1..(k - 1) :
               content[m].kind = "TEXT" \/ Parent(NormalizePath(content[m].raw)) # dir

\* a directory that goes before another: a higher score, or the same score
\* and its first file earlier in the content
GoesBefore(d1, d2) ==
    \/ _dir_importance(d1) > _dir_importance(d2)
    \/ /\ _dir_importance(d1) = _dir_importance(d2)
       /\ FirstInContent(d1) < FirstInContent(d2)

\* C19: in a directory result, when directory d1 has a higher importance
\* than d2, or the same and its first file earlier in the content, every
\* file of d1 is before every file of d2 in the chunks' file lists read in
\* chunk-id order.
C19_DirectoryOrder ==
    (pc = "done" /\ strategy = "directory") =>
        LET order == FileOrder(Returned)
        IN  \A f1, f2 \in Range(order) :
                (Parent(f1) # Parent(f2) /\ GoesBefore(Parent(f1), Parent(f2)))
                    => PlaceIn(order, f1) < PlaceIn(order, f2)

\* three directories, the one of the highest score last in the content and
\* the two others of equal score
C19_Witness ==
    /\ pc = "done"
    /\ strategy = "directory"
    /\ Len(sorted_dirs) = 3
    /\ Parent(Recognised[3]) = sorted_dirs[1]
    /\ _dir_importance(sorted_dirs[2]) = _dir_importance(sorted_dirs[3])
    /\ Len(Returned) >= 2

\* the greatest of the scores a scoring gives the files of a chunk
MaxScore(c, Score(_)) == Max({Score(c.files[k]) : k \in 1..Len(c.files)})

\* the importance the metadata gives the file, else the score of its name
GivenElseName(f) ==
    IF \E k \in 1..Len(files) : files[k].path = f /\ "importance" \in DOMAIN files[k]
    THEN files[CHOOSE k \in 1..Len(files) :
                  /\ files[k].path = f /\ "importance" \in DOMAIN files[k]
                  /\ \A m \in 1..(k - 1) :
                         ~(files[m].path = f /\ "importance" \in DOMAIN files[m])].importance
    ELSE FileNameScore(Name(f))

\* the importance of the first record of the file's path, 50 when that
\* record gives none; the score of the file's name when no record has its
\* path
FirstRecordElseName(f) ==
    LET Mine(r) == r.path = f
        mine == SelectSeq(files, Mine)
    IN  IF mine = <<>> THEN FileNameScore(Name(f))
        ELSE IF "importance" \in DOMAIN mine[1] THEN mine[1].importance ELSE 50

HoldersOf(f) == {c \in Held : f \in Range(c.files)}

\* the positions, in the returned list, of the chunks holding a file of the
\* directory
ChunksOfDir(dir) ==
    {k \in 1..Len(Returned) : \E f \in Range(Returned[k].files) : Parent(f) = dir}

\* C21: in the semantic strategy the files of one cluster (files a path of
\* relations joins) are in the same chunk, at every point of packing and in
\* the result; in the directory strategy the files of one parent directory
\* are in more than one chunk only if the token cost of the directory's
\* blocks together exceeds max_tokens.
C21_UnitsKeptWhole ==
    /\ (strategy = "semantic" /\ pc \in {"semantic_loop", "assemble", "done"}) =>
           /\ \A k \in 1..Len(clusters) : \A a, b \in Range(clusters[k]) :
                  HoldersOf(a) = HoldersOf(b)
           /\ \A a \in Range(Keys(file_blocks)) : \A b \in ReachFrom({a}) :
                  HoldersOf(a) = HoldersOf(b)
    /\ (strategy = "directory" /\ pc = "done") =>
           \A dir \in Range(sorted_dirs) :
               Cardinality(ChunksOfDir(dir)) > 1 =>
                   UnitCost(DirPaths(file_blocks, dir)) > max_tokens

\* a directory result in which the two files of an oversized directory are
\* in two chunks, behind a directory kept in one chunk
C21_Witness ==
    /\ pc = "done"
    /\ strategy = "directory"
    /\ Len(sorted_dirs) = 2
    /\ Cardinality(ChunksOfDir(sorted_dirs[1])) = 1
    /\ Cardinality(ChunksOfDir(sorted_dirs[2])) = 2

\* the positions of the packing loops
PackingLoops == {"file_loop", "dir_loop", "dir_split", "semantic_loop", "hybrid_loop"}

\* the chunk has the file list, the content and the token_count it had
SameAsSealed(before, after) ==
    /\ after.files = before.files
    /\ after.content = before.content
    /\ after.token_count = before.token_count

\* C22: a step of a packing loop leaves every chunk of the sealed list in
\* its place with its file list, content and token_count; a step that
\* changes a sealed chunk is a step of the hybrid overlap pass, which starts
\* when the last chunk is sealed, adds no chunk and leaves file lists alone.
C22_SealedChunksImmutable ==
    [][/\ pc \in PackingLoops =>
              /\ Len(chunks') >= Len(chunks)
              /\ \A k \in 1..Len(chunks) : SameAsSealed(chunks[k], chunks'[k])
       /\ (\E k \in 1..Len(chunks) :
               k <= Len(chunks') /\ ~SameAsSealed(chunks[k], chunks'[k])) =>
              /\ pc = "overlap"
              /\ strategy = "hybrid"
       /\ pc \in {"overlap", "assemble"} =>
              /\ Len(chunks') = Len(chunks)
              /\ \A k \in 1..Len(chunks) : chunks'[k].files = chunks[k].files
       /\ pc' = "done" => Returned' = chunks]_vars

\* packing has gone on behind a sealed chunk: the open chunk holds two
\* units
C22_Witness ==
    /\ pc \in PackingLoops
    /\ Len(chunks) >= 1
    /\ Len(current_chunk.units) = 2
    /\ current_chunk.chunk_id = Len(chunks)

\* the strategies whose loop packs a unit by the one greedy test
GreedyStrategies == {"file", "semantic", "hybrid"}

\* the token_count packing gave the chunk, the injected overlap left aside
PackedCount(c) == c.token_count - c.overlap_with_previous

\* of two chunks that follow each other, the first could not take the
\* first unit of the second
CouldNotTake(c, d) == PackedCount(c) + UnitCost(d.units[1]) > max_tokens

\* the step packs a unit: a turn of the loop of the file, semantic or
\* hybrid strategy that is not the skip of a processed file
PacksUnit ==
    /\ pc \in {"file_loop", "semantic_loop", "hybrid_loop"}
    /\ pc' = pc
    /\ current_chunk' # current_chunk

\* C23: in the file, semantic and hybrid strategies a unit is appended to
\* the open chunk exactly when the open chunk's token_count plus the unit's
\* cost is at most max_tokens; otherwise the open chunk is sealed if it
\* holds a file and the unit starts a new chunk.  So of two chunks that
\* follow each other, sealed, open or returned, the packed token_count of
\* the first plus the cost of the first unit of the second exceeds
\* max_tokens.
C23_GreedyPacking ==
    [][/\ PacksUnit =>
              LET unit == current_chunk'.units[Len(current_chunk'.units)]
                  cost == UnitCost(unit)
              IN  IF current_chunk.token_count + cost <= max_tokens
                  THEN /\ chunks' = chunks
                       /\ current_chunk'.chunk_id = current_chunk.chunk_id
                       /\ current_chunk'.units = Append(current_chunk.units, unit)
                       /\ current_chunk'.files = current_chunk.files \o unit
                       /\ current_chunk'.token_count = current_chunk.token_count + cost
                  ELSE /\ IF current_chunk.files = <<>> THEN chunks' = chunks
                          ELSE /\ Len(chunks') = Len(chunks) + 1
                               /\ SubSeq(chunks', 1, Len(chunks)) = chunks
                               /\ SameAsSealed(current_chunk, chunks'[Len(chunks')])
                       /\ current_chunk'.chunk_id = Len(chunks')
                       /\ current_chunk'.units = << unit >>
                       /\ current_chunk'.files = unit
                       /\ current_chunk'.token_count = cost
       /\ (strategy \in GreedyStrategies /\ pc' \in PackingLoops \cup {"done"}) =>
              /\ \A k \in 1..(Len(chunks') - 1) : CouldNotTake(chunks'[k], chunks'[k + 1])
              /\ (pc' \in PackingLoops /\ chunks' # <<>> /\ current_chunk'.files # <<>>)
                     => CouldNotTake(chunks'[Len(chunks')], current_chunk')
              /\ pc' = "done" =>
                     \A k \in 1..(Len(Returned') - 1) :
                         CouldNotTake(Returned'[k], Returned'[k + 1])]_vars

\* a result of two chunks, the first of two units that fill max_tokens
\* exactly
C23_Witness ==
    /\ pc = "done"
    /\ strategy \in GreedyStrategies
    /\ Len(Returned) = 2
    /\ Len(Returned[1].units) = 2
    /\ PackedCount(Returned[1]) = max_tokens

\* the paths of the delimited blocks of the content, each at the place of
\* its first appearance
RECURSIVE FirstAppearances(_, _)
FirstAppearances(entries, seen) ==
    IF entries = <<>> THEN seen
    ELSE LET e == Head(entries)
             path == NormalizePath(e.raw)
         IN  FirstAppearances(Tail(entries),
                              IF e.kind = "TEXT" \/ path \in Range(seen) THEN seen
                              ELSE Append(seen, path))

\* C24: the file lists of the chunks the file strategy returns, one after
\* the other in chunk-id order, are the paths of the content in the order of
\* their first appearance.
C24_FileOrderPreserved ==
    (pc = "done" /\ strategy = "file") =>
        FileOrder(Returned) = FirstAppearances(content, <<>>)

\* a content in which the first path appears again behind another path,
\* packed into two chunks or more
C24_Witness ==
    /\ pc = "done"
    /\ strategy = "file"
    /\ Len(content) = 3
    /\ content[1].kind # "TEXT"
    /\ NormalizePath(content[3].raw) = NormalizePath(content[1].raw)
    /\ NormalizePath(content[2].raw) # NormalizePath(content[1].raw)
    /\ content[2].kind # "TEXT"
    /\ Len(Returned) = 2

\* how many members of the list satisfy the test
HowMany(list, Test(_)) == Len(SelectSeq(list, Test))

\* the content of the chunk behind the injected context: the pieces after
\* the blank line that closes it
OwnContent(c) ==
    IF ~HasOverlap(c) THEN c.content
    ELSE LET last == CHOOSE k \in 1..Len(c.content) :
                         /\ c.content[k].kind = "gap"
                         /\ \A m \in (k + 1)..Len(c.content) : c.content[m].kind # "gap"
         IN  SubSeq(c.content, last + 1, Len(c.content))

\* the contents the chunks of a list were packed with, one after the other
RECURSIVE OwnContents(_)
OwnContents(cs) ==
    IF cs = <<>> THEN <<>> ELSE OwnContent(Head(cs)) \o OwnContents(Tail(cs))

\* C25: in the result of every strategy, every recognised path is exactly
\* once in the chunks' file lists taken together, and its block is exactly
\* once in the contents the chunks were packed with, also when an import of
\* the file resolves to the file itself.
C25_PlacedExactlyOnce ==
    pc = "done" =>
        \A p \in Range(Recognised) :
            LET IsP(f) == f = p
                OfP(piece) == piece.kind = "block" /\ piece.path = p
            IN  /\ HowMany(FileOrder(Returned), IsP) = 1
                /\ HowMany(OwnContents(Returned), OfP) = 1

\* C26: no chunk of the sealed list, at any point of any strategy, and no
\* chunk of the returned result has an empty file list or an empty content,
\* also when the first unit exceeds max_tokens and takes the place of the
\* empty initial chunk.
C26_NoEmptyChunk ==
    /\ \A k \in 1..Len(chunks) : chunks[k].files # <<>> /\ chunks[k].content # <<>>
    /\ pc = "done" =>
           \A k \in 1..Len(Returned) :
               Returned[k].files # <<>> /\ Returned[k].content # <<>>

\* a result of two chunks or more whose first unit exceeded max_tokens: the
\* empty initial chunk was dropped
C26_Witness ==
    /\ pc = "done"
    /\ Len(Returned) >= 2
    /\ Len(Returned[1].units) = 1
    /\ UnitCost(Returned[1].units[1]) > max_tokens
    /\ Returned[1].chunk_id = 0

\* C27: at every point of packing and in the result of every strategy, the
\* content a chunk was packed with (its content, the injected context and
\* its closing blank line left aside) is the blocks of the files of its
\* file list, concatenated in the order of the list; before the overlap
\* pass this is the whole content.
C27_ContentMatchesFiles ==
    /\ \A c \in Held : OwnContent(c) = JoinBlocks(file_blocks, c.files)
    /\ pc \in PackingLoops =>
           \A c \in AllChunks : c.content = JoinBlocks(file_blocks, c.files)

\* a hybrid result in which a chunk of two files received overlap
C27_Witness ==
    /\ pc = "done"
    /\ \E c \in Range(Returned) :
           /\ HasOverlap(c)
           /\ Len(c.files) >= 2
           /\ c.files[1] # c.files[2]

\* the importance _file_importance gives the file with the metadata of the
\* invocation
Importance(f) == _file_importance(f, files)

\* C28: in a hybrid result importance_score does not increase with the
\* chunk id; no file of an importance group scores higher than the file
\* that leads the group, and the leaders come in descending order of
\* importance.
C28_HybridOrderedByImportance ==
    (pc = "done" /\ strategy = "hybrid") =>
        LET groups == [k \in 1..Len(Returned) |-> Returned[k].units]
        IN  /\ \A k \in 1..(Len(Returned) - 1) :
                   Returned[k].importance_score >= Returned[k + 1].importance_score
            /\ \A k \in 1..Len(Returned) : \A n \in 1..Len(groups[k]) :
                   /\ \A f \in Range(groups[k][n]) :
                          Importance(f) <= Importance(groups[k][n][1])
                   /\ n > 1 => Importance(groups[k][n][1])
                                   <= Importance(groups[k][n - 1][1])
                   /\ Importance(groups[k][n][1]) <= Returned[k].importance_score

\* a hybrid result of three chunks of falling importance for a content
\* that gives the files in rising order of importance
C28_Witness ==
    /\ pc = "done"
    /\ strategy = "hybrid"
    /\ Len(Returned) = 3
    /\ Len(Recognised) = 3
    /\ Importance(Recognised[1]) < Importance(Recognised[2])
    /\ Importance(Recognised[2]) < Importance(Recognised[3])
    /\ Returned[1].importance_score > Returned[2].importance_score
    /\ Returned[2].importance_score > Returned[3].importance_score

C30_HybridBudgetApartFromOverlap ==
    (pc = "done" /\ strategy = "hybrid") =>
        \A c \in Range(Returned) :
            /\ \/ c.token_count - c.overlap_with_previous <= max_tokens
               \/ Len(c.units) = 1 /\ UnitCost(c.units[1]) > max_tokens
            /\ (Len(c.units) > 1 /\ c.token_count > max_tokens) =>
                   /\ c.overlap_with_previous = overlap
                   /\ HasOverlap(c)
                   /\ c.token_count - overlap <= max_tokens

\* a hybrid result with a chunk of two groups that the overlap took over
\* max_tokens, behind a chunk of one group
C30_Witness ==
    /\ pc = "done"
    /\ strategy = "hybrid"
    /\ \E c \in Range(Returned) :
           /\ Len(c.units) = 2
           /\ c.token_count > max_tokens
           /\ c.token_count - c.overlap_with_previous <= max_tokens
    /\ Len(Returned[1].units) = 1

====
